---------------------------- MODULE Spec2Model ----------------------------
(***************************************************************************)
(* A model of cloudstor-agent's fstab.py (class Line, class Fstab) and of  *)
(* setup.py's add_fstab_entry.                                              *)
(*                                                                         *)
(* Text is a sequence of one-character strings.  A Line object is its      *)
(* `dict': a function from Keys to text, None, or Missing (key not in the  *)
(* dict).  The file system is a directory (name -> inode or Absent) and an *)
(* inode table (content, permission bits).                                 *)
(***************************************************************************)
EXTENDS Integers, Sequences, FiniteSets, TLC

(***************************************************************************)
(* Bounds of the model.                                                    *)
(***************************************************************************)
MaxTokens == 7      \* tokens in a generated raw line (6 fields + 1 extra)
MaxLines == 3       \* lines of a table read from a file
MaxOps == 2         \* table operations applied in a row
MaxWrites == 2      \* write() calls of one session

(***************************************************************************)
(* The state: one Line object, one table, and the file system with the     *)
(* sessions that write to it.                                              *)
(***************************************************************************)
VARIABLES
    lraw,       \* the text the Line is constructed from
    ldict,      \* its self.dict
    lpc,        \* "new" before Line(raw), "ready" after
    lop,        \* the last call made on the object
    lerr,       \* whether that call raised
    lbefore,    \* self.dict before that call
    lout,       \* what the last get_raw returned
    larg        \* the value the last setter was called with, None before

lineVars == <<lraw, ldict, lpc, lop, lerr, lbefore, lout, larg>>

VARIABLES
    lines,      \* self.lines of one Fstab
    tops,       \* the calls made on it so far, oldest first
    thist,      \* thist[k]: self.lines before call k
    tret        \* what the last get_entry returned (a position, 0 for None)

tableVars == <<lines, tops, thist, tret>>

VARIABLES
    dir,        \* the directory: name -> inode number, 0 when there is no such file
    inodes,     \* inode number -> [content, perms]
    tbl,        \* tbl[s]: self.lines of session s
    pc,         \* pc[s]: the call of write that session s makes next, or "idle"
    tempname,   \* tempname[s]
    wi,         \* wi[s]: lines written to the temporary file so far
    perms,      \* perms[s]: what get_perms returned
    result,     \* result[s]: how the last write ended: "none", "ok", "failed"
    failedAt,   \* failedAt[s]: the call the last failed write failed in
    pre,        \* pre[s]: path and backup as they were when the write was called
    nwrites,    \* nwrites[s]: writes called so far
    published,  \* the contents path was given: the first one and every rendering
    rino,       \* the inode an outside reader has open, 0 for none
    robs        \* what that reader read last, None before

fsVars == <<dir, inodes, tbl, pc, tempname, wi, perms, result, failedAt, pre,
            nwrites, published, rino, robs>>

VARIABLES
    runpc,      \* where add_fstab_entry is: "start", "loaded" (after read),
                \* "write", and how the last run ended: "returned", "raised"
    suser,      \* what get_default_user returns on this machine
    nok         \* the writes of add_fstab_entry that have returned so far

setupVars == <<runpc, suser, nok>>

vars == <<lineVars, tableVars, fsVars, setupVars>>

(***************************************************************************)
(* Text helpers: Python's str methods, as far as fstab.py uses them.       *)
(***************************************************************************)
None == <<"None">>          \* Python's None (no text is equal to it)
Missing == <<"Missing">>    \* "key not in self.dict"

\* \s of the re module (and what str.strip() strips)
IsSpace(c) == c \in {" ", "\t", "\n", "\r"}

\* \d of the re module
IsDigit(c) == c \in {"0", "1", "2", "3", "4", "5", "6", "7", "8", "9"}

RECURSIVE Concat(_)
\* "".join(seq of texts)
Concat(ss) == IF ss = <<>> THEN <<>> ELSE Head(ss) \o Concat(Tail(ss))

RECURSIVE JoinWith(_, _)
\* sep.join(seq of texts)
JoinWith(sep, ss) ==
    IF ss = <<>> THEN <<>>
    ELSE IF Len(ss) = 1 THEN ss[1]
    ELSE ss[1] \o sep \o JoinWith(sep, Tail(ss))

RECURSIVE LStrip(_)
LStrip(s) == IF s # <<>> /\ IsSpace(Head(s)) THEN LStrip(Tail(s)) ELSE s

RECURSIVE RStrip(_)
RStrip(s) ==
    IF s # <<>> /\ IsSpace(s[Len(s)]) THEN RStrip(SubSeq(s, 1, Len(s) - 1)) ELSE s

\* raw.strip()
Strip(s) == RStrip(LStrip(s))

\* s.startswith(p)
StartsWith(s, p) == Len(s) >= Len(p) /\ SubSeq(s, 1, Len(p)) = p

RECURSIVE Split(_, _)
\* s.split(c) for a separator c of one character
Split(s, c) ==
    IF \E i \in 1..Len(s) : s[i] = c
    THEN LET i == CHOOSE j \in 1..Len(s) : s[j] = c /\ \A k \in 1..(j - 1) : s[k] # c
         IN  <<SubSeq(s, 1, i - 1)>> \o Split(SubSeq(s, i + 1, Len(s)), c)
    ELSE <<s>>

DigitChars == <<"0", "1", "2", "3", "4", "5", "6", "7", "8", "9">>

RECURSIVE StrNat(_)
StrNat(n) == IF n < 10 THEN <<DigitChars[n + 1]>>
             ELSE StrNat(n \div 10) \o <<DigitChars[(n % 10) + 1]>>

\* str(value) for an int
StrInt(v) == IF v < 0 THEN <<"-">> \o StrNat(0 - v) ELSE StrNat(v)

(***************************************************************************)
(* class Line                                                              *)
(***************************************************************************)
attrs == <<"ws1", "device", "ws2", "directory", "ws3", "fstype",
           "ws4", "options", "ws5", "dump", "ws6", "fsck", "ws7">>

AttrSet == {attrs[i] : i \in 1..Len(attrs)}
Keys == AttrSet \cup {"raw"}

\* self.dict = {}
EmptyDict == [k \in Keys |-> Missing]

\* The pattern of set_raw: one item per named group, <<class, minimum>>;
\* every group is greedy and unbounded.
pat == << <<"s", 0>>, <<"S", 0>>, <<"s", 1>>, <<"S", 1>>, <<"s", 1>>, <<"S", 1>>,
          <<"s", 1>>, <<"S", 1>>, <<"s", 1>>, <<"d", 1>>, <<"s", 1>>, <<"d", 1>>,
          <<"s", 0>> >>

InClass(c, cls) == CASE cls = "s" -> IsSpace(c)
                     [] cls = "S" -> ~IsSpace(c)
                     [] cls = "d" -> IsDigit(c)

RECURSIVE RunLen(_, _, _)
\* how many characters from position pos on are in class cls
RunLen(s, pos, cls) ==
    IF pos <= Len(s) /\ InClass(s[pos], cls) THEN 1 + RunLen(s, pos + 1, cls) ELSE 0

\* "$" without re.MULTILINE: at the end, or just before a final newline
AtDollar(s, pos) == pos = Len(s) + 1 \/ (pos = Len(s) /\ s[pos] = "\n")

\* lengths are not negative, so this is no list of lengths
NoMatch == <<-1>>

RECURSIVE MatchFrom(_, _, _)
RECURSIVE TryLen(_, _, _, _)
\* re.match of groups k.. of pat at position pos: the lengths of the groups,
\* found as the backtracking matcher finds them (longest first), or NoMatch
MatchFrom(s, pos, k) ==
    IF k > Len(pat)
    THEN (IF AtDollar(s, pos) THEN <<>> ELSE NoMatch)
    ELSE TryLen(s, pos, k, RunLen(s, pos, pat[k][1]))

TryLen(s, pos, k, n) ==
    IF n < pat[k][2] THEN NoMatch
    ELSE LET rest == MatchFrom(s, pos + n, k + 1)
         IN  IF rest # NoMatch THEN <<n>> \o rest ELSE TryLen(s, pos, k, n - 1)

RECURSIVE SumTo(_, _)
SumTo(lens, k) == IF k = 0 THEN 0 ELSE lens[k] + SumTo(lens, k - 1)

\* match.group(attrs[k]) for the group lengths lens
Group(s, lens, k) == SubSeq(s, SumTo(lens, k - 1) + 1, SumTo(lens, k))

AttrIndex(a) == CHOOSE i \in 1..Len(attrs) : attrs[i] = a

\* set_raw without the test of line 93 for a leading "#"
set_raw_nocomment(d, raw) ==
    LET lens == IF Strip(raw) # <<>> THEN MatchFrom(raw, 1, 1) ELSE NoMatch
    IN  [k \in Keys |->
            IF k = "raw" THEN raw
            ELSE IF lens # NoMatch THEN Group(raw, lens, AttrIndex(k))
            ELSE None]

\* Line.set_raw: the dict after self.raw = raw of __init__
set_raw(d, raw) ==
    LET tryMatch == Strip(raw) # <<>> /\ ~StartsWith(Strip(raw), <<"#">>)
        lens == IF tryMatch THEN MatchFrom(raw, 1, 1) ELSE NoMatch
    IN  [k \in Keys |->
            IF k = "raw" THEN raw
            ELSE IF lens # NoMatch THEN Group(raw, lens, AttrIndex(k))
            ELSE None]

\* Line.has_filesystem
has_filesystem(d) == d["device"] # None

\* " ".join(...)
RawJoinerSpace == <<" ">>

\* The text get_raw puts between two stored fragments: nothing.
RawJoiner == <<>>

\* Line.get_raw
get_raw(d) ==
    IF has_filesystem(d)
    THEN JoinWith(RawJoiner, [i \in 1..Len(attrs) |-> d[attrs[i]]])
    ELSE d["raw"]

\* Line(raw): __init__ sets self.dict = {} and then self.raw = raw
NewLine(raw) == set_raw(EmptyDict, raw)

\* The names __setattr__ hands to object.__setattr__ whatever the dict holds.
forbidden == {"dict", "dump", "fsck", "options"}

\* Line.set_dump
set_dump(d, value) == [d EXCEPT !["dump"] = StrInt(value)]

\* Line.set_fsck
set_fsck(d, value) == [d EXCEPT !["fsck"] = StrInt(value)]

\* Line.get_options; None stands for the AttributeError of None.split
get_options(d) ==
    IF has_filesystem(d) THEN Split(d["options"], ",") ELSE None

\* ", ".join(list)
set_options_spaced(d, list) == [d EXCEPT !["options"] = JoinWith(<<",", " ">>, list)]

\* Line.set_options
set_options(d, list) == [d EXCEPT !["options"] = JoinWith(<<",">>, list)]

\* Line.__setattr__(name, value) for the six field names: the dict afterwards
\* and whether the exception of lines 59-60 was raised.  dump, fsck and options
\* are properties of the class, so object.__setattr__ calls their setters.
Line__setattr__(d, name, value) ==
    IF name \notin forbidden /\ d[name] # Missing
    THEN IF d[name] = None
         THEN [dict |-> d, raised |-> TRUE]
         ELSE [dict |-> [d EXCEPT ![name] = value], raised |-> FALSE]
    ELSE CASE name = "dump" -> [dict |-> set_dump(d, value), raised |-> FALSE]
           [] name = "fsck" -> [dict |-> set_fsck(d, value), raised |-> FALSE]
           [] name = "options" -> [dict |-> set_options(d, value), raised |-> FALSE]
           [] OTHER -> [dict |-> d, raised |-> FALSE]

(***************************************************************************)
(* One Line object and the calls made on it.                               *)
(***************************************************************************)

\* Pieces the raw lines of the parser's input are built from.
Tokens == {<<"a">>, <<"0", "7">>}
Leads == {<<>>, <<" ">>, <<"#">>, <<"\t", " ">>, <<" ", "#">>, <<"#", " ">>}
Seps == {<<" ">>, <<"\t", " ">>}
Trails == {<<>>, <<"\n">>, <<" ", "\n">>}

TokenSeqs == UNION {[1..n -> Tokens] : n \in 0..MaxTokens}

\* Blank lines, comments, lines of 0..MaxTokens fields with varied white space
RawLines ==
    {lead \o JoinWith(sep, toks) \o trail :
        lead \in Leads, sep \in Seps, toks \in TokenSeqs, trail \in Trails}

\* A few lines of each kind, for the calls that change a Line
SampleLines ==
    { <<"d", " ", "/", "m", " ", "t", " ", "o", " ", "0", " ", "0", "\n">>,
      <<"\t", "d", " ", " ", "/", "m", "\t", "t", " ", "r", ",", "w", " ",
        "0", "7", " ", "1", " ", "\n">>,
      <<"#", " ", "c", "\n">>,
      <<"#", "d", " ", "/", "m", " ", "t", " ", "o", " ", "0", " ", "0", "\n">>,
      <<"\n">>,
      <<>>,
      <<"d", " ", "/", "m", " ", "t", " ", "o", " ", "x", " ", "0", "\n">>,
      <<"d", " ", "/", "m", " ", "t", "\n">> }

TextFields == {"device", "directory", "fstype"}
SixFields == TextFields \cup {"options", "dump", "fsck"}
TextValues == {<<"x">>}
IntValues == {3}
OptionLists ==
    { <<<<"a">>, <<"b">>>>, <<<<"u">>>>, <<>>, <<<<"a", ",", "b">>>>,
      <<<<>>, <<"x">>>> }

LineStart(raws) ==
    /\ lraw \in raws
    /\ ldict = EmptyDict
    /\ lpc = "new"
    /\ lop = "none"
    /\ lerr = FALSE
    /\ lbefore = EmptyDict
    /\ lout = None
    /\ larg = None

\* Line(lraw)
LineInit ==
    /\ UNCHANGED <<tableVars, fsVars, setupVars>>
    /\ lpc = "new"
    /\ ldict' = NewLine(lraw)
    /\ lpc' = "ready"
    /\ lop' = "init"
    /\ UNCHANGED <<lraw, lerr, lbefore, lout, larg>>

\* line.raw read (the property's getter)
LineRender ==
    /\ UNCHANGED <<tableVars, fsVars, setupVars>>
    /\ lpc = "ready"
    /\ lout' = get_raw(ldict)
    /\ lop' = "get_raw"
    /\ lerr' = FALSE
    /\ lbefore' = ldict
    /\ UNCHANGED <<lraw, ldict, lpc, larg>>

\* line.<name> = value
LineSet(name, value) ==
    /\ UNCHANGED <<tableVars, fsVars, setupVars>>
    /\ lpc = "ready"
    /\ LET r == Line__setattr__(ldict, name, value)
       IN  /\ ldict' = r.dict
           /\ lerr' = r.raised
    /\ lop' = name
    /\ lbefore' = ldict
    /\ larg' = value
    /\ UNCHANGED <<lraw, lpc, lout>>

SetText == \E name \in TextFields, v \in TextValues : LineSet(name, v)
SetDump == \E v \in IntValues : LineSet("dump", v)
SetFsck == \E v \in IntValues : LineSet("fsck", v)
SetOptions == \E l \in OptionLists : LineSet("options", l)

(***************************************************************************)
(* class Fstab: the table (self.lines) and the calls that work on it.      *)
(***************************************************************************)
RECURSIVE get_entry_from(_, _, _)
get_entry_from(ls, i, directory) ==
    IF i > Len(ls) THEN 0
    ELSE IF ls[i]["directory"] = directory THEN i
    ELSE get_entry_from(ls, i + 1, directory)

RECURSIVE get_entry_last(_, _)
\* the loop without its return: the last match is what is left
get_entry_last(ls, directory) ==
    IF ls = <<>> THEN 0
    ELSE IF ls[Len(ls)]["directory"] = directory THEN Len(ls)
    ELSE get_entry_last(SubSeq(ls, 1, Len(ls) - 1), directory)

\* Fstab.get_entry: the position of the line returned, 0 for None
get_entry(ls, directory) == get_entry_from(ls, 1, directory)

\* del self.lines[i]
DelAt(ls, i) == SubSeq(ls, 1, i - 1) \o SubSeq(ls, i + 1, Len(ls))

RECURSIVE delete_loop(_, _, _)
\* The for loop of delete_entry: the list iterator keeps a position, which
\* moves on by one after every pass, also after a pass that deleted.
delete_loop(ls, i, directory) ==
    IF i > Len(ls) THEN ls
    ELSE IF ls[i]["directory"] = directory
         THEN delete_loop(DelAt(ls, i), i + 1, directory)
         ELSE delete_loop(ls, i + 1, directory)

\* line 191 moved out of the if of line 190: every line the loop visits goes
delete_entry_dedented(ls, directory) == [i \in 1..(Len(ls) \div 2) |-> ls[2 * i]]

\* Fstab.delete_entry
delete_entry(ls, directory) == delete_loop(ls, 1, directory)

\* the format string without its "\n"
FormatEntryNoNewline(device, directory, fstype, options, dump, fsck) ==
    JoinWith(<<" ">>, <<device, directory, fstype, options,
                        StrInt(dump), StrInt(fsck)>>)

\* "{} {} {} {} {} {}\n".format(device, directory, fstype, options, dump, fsck)
FormatEntry(device, directory, fstype, options, dump, fsck) ==
    JoinWith(<<" ">>, <<device, directory, fstype, options,
                        StrInt(dump), StrInt(fsck)>>) \o <<"\n">>

\* add_entry without lines 196-197
add_entry_append(ls, device, directory, fstype, options, dump, fsck) ==
    Append(ls, NewLine(FormatEntry(device, directory, fstype, options, dump, fsck)))

\* Fstab.add_entry
add_entry(ls, device, directory, fstype, options, dump, fsck) ==
    LET kept == IF get_entry(ls, directory) # 0
                THEN delete_entry(ls, directory) ELSE ls
    IN  Append(kept, NewLine(FormatEntry(device, directory, fstype, options,
                                         dump, fsck)))


\* The lines of the files the tables are read from
TableLines ==
    { <<"d", " ", "/", "m", " ", "t", " ", "o", " ", "0", " ", "0", "\n">>,
      <<"e", " ", "/", "m", " ", "t", " ", "o", " ", "0", " ", "1", "\n">>,
      <<"d", " ", "/", "n", " ", "t", " ", "o", " ", "0", " ", "0", "\n">>,
      <<"#", " ", "/", "m", "\n">> }

Mounts == {<<"/", "m">>, <<"/", "n">>}

\* Arguments of add_entry: <<device, directory, fstype, options, dump, fsck>>
AddArgs ==
    { << <<"x">>, <<"/", "m">>, <<"t">>, <<"o">>, 0, 0 >>,
      << <<"y">>, <<"/", "m">>, <<"t">>, <<"r", ",", "w">>, 1, 2 >>,
      << <<>>, <<"/", "n">>, <<"t">>, <<"o">>, 0, 0 >>,
      << <<"x">>, <<"/", "m", " ", "m">>, <<"t">>, <<"o">>, 0, 0 >>,
      << <<"#", "x">>, <<"/", "m">>, <<"t">>, <<"o">>, 0, 0 >>,
      << <<"x">>, <<"/", "m">>, <<"t">>, <<"o">>, -1, 0 >> }

TableStart ==
    /\ lines \in UNION {[1..n -> {NewLine(r) : r \in TableLines}] : n \in 0..MaxLines}
    /\ tops = <<>>
    /\ thist = <<>>
    /\ tret = 0

Called(op, args) ==
    /\ UNCHANGED <<lineVars, fsVars, setupVars>>
    /\ Len(tops) < MaxOps
    /\ tops' = Append(tops, [op |-> op, args |-> args])
    /\ thist' = Append(thist, lines)

\* fstab.get_entry(m)
GetEntry ==
    \E m \in Mounts :
        /\ Called("get", <<m>>)
        /\ tret' = get_entry(lines, m)
        /\ UNCHANGED lines

\* fstab.delete_entry(m)
DeleteEntry ==
    \E m \in Mounts :
        /\ Called("delete", <<m>>)
        /\ lines' = delete_entry(lines, m)
        /\ UNCHANGED tret

\* fstab.add_entry(device, directory, fstype, options, dump, fsck)
AddEntry ==
    \E a \in AddArgs :
        /\ Called("add", a)
        /\ lines' = add_entry(lines, a[1], a[2], a[3], a[4], a[5], a[6])
        /\ UNCHANGED tret

(***************************************************************************)
(* The file system Fstab.write works on, and write itself, one file-system *)
(* call per step.                                                          *)
(***************************************************************************)
Sessions == {1, 2}

\* fn, fn + ".bak", and the names tempfile.mkstemp(dir=dirname, prefix=prefix)
\* can return: all in the directory of fn
Path == <<"fstab">>
Bak == Path \o <<"bak">>
TempName(k) == Path \o <<DigitChars[k]>>
MaxTemps == MaxWrites * Cardinality(Sessions)
Names == {Path, Bak} \cup {TempName(k) : k \in 1..MaxTemps}


\* path exists / its content / its permission bits
Exists(d, name) == d[name] # 0
ContentOf(d, ino, name) == IF Exists(d, name) THEN ino[d[name]].content ELSE None
PermsOf(d, ino, name) == IF Exists(d, name) THEN ino[d[name]].perms ELSE -1

RECURSIVE Render(_)
\* what the loop of write hands to f.write, line by line
Render(ls) == IF ls = <<>> THEN <<>> ELSE get_raw(Head(ls)) \o Render(Tail(ls))

\* Fstab.get_perms: os.stat(filename).st_mode, the file type bits of a
\* regular file (0o100000) and the permission bits
get_perms(d, ino, filename) == 32768 + ino[d[filename]].perms

\* Fstab.rename_file: os.rename replaces newname in one step
rename_file(d, oldname, newname) == [d EXCEPT ![newname] = d[oldname], ![oldname] = 0]

\* os.chmod left out
chmod_file_noop(d, ino, filename, mode) == ino

\* Fstab.chmod_file: os.chmod keeps the low twelve bits of mode (mode & 0o7777)
chmod_file(d, ino, filename, mode) ==
    [ino EXCEPT ![d[filename]].perms = mode % 4096]

\* open(fn, "w"): the table written over the file itself
WriteTargetInPlace(s) == Path

\* every write using the one temporary name fn + ".1"
WriteTargetShared(s) == TempName(1)

\* the file open(tempname, "w") of write opens
WriteTarget(s) == tempname[s]

\* os.remove(oldname)
RemoveTargetOld(oldname, newname) == oldname

\* the file os.remove of link_file removes: newname
RemoveTarget(oldname, newname) == newname

\* link_file(tempname, fn + ".bak")
BackupSourceTemp(s) == tempname[s]

\* the file write has link_file link the backup to: fn
BackupSource(s) == Path

\* tempfile.mkstemp creates the file with mode 0o600
MkstempPerms == 384

Snapshot ==
    [exists |-> Exists(dir, Path),
     content |-> ContentOf(dir, inodes, Path),
     perms |-> PermsOf(dir, inodes, Path),
     bakExists |-> Exists(dir, Bak),
     bakContent |-> ContentOf(dir, inodes, Bak)]

NoSnapshot ==
    [exists |-> FALSE, content |-> None, perms |-> -1,
     bakExists |-> FALSE, bakContent |-> None]

\* Tables a session holds: read from a file, then edited
A1 == NewLine(<<"d", " ", "/", "m", " ", "t", " ", "o", " ", "0", " ", "0", "\n">>)
C1line == NewLine(<<"#", " ", "c", "\n">>)
X1 == NewLine(FormatEntry(<<"x">>, <<"/", "c">>, <<"t">>, <<"o">>, 0, 0))
Tables == { <<A1>>, <<C1line, A1, X1>> }

\* What path holds at the start
OldFile == <<"#", " ", "o", "l", "d", "\n">>
InitContents == { get_raw(A1), OldFile }
InitPerms == {420, 436}        \* 0o644, 0o664
OldBackup == <<"#", " ", "b", "a", "k", "\n">>

\* path holds one of contents (None: there is no such file), with or without
\* a backup beside it; the sessions outside S hold the same one-line table
FsStartWith(S, contents) ==
    /\ \E c \in contents, p \in InitPerms, b \in BOOLEAN :
          /\ inodes = << [content |-> IF c = None THEN <<>> ELSE c, perms |-> p],
                         [content |-> OldBackup, perms |-> p] >>
          /\ dir = [n \in Names |->
                      IF n = Path /\ c # None THEN 1
                      ELSE IF n = Bak /\ b THEN 2 ELSE 0]
          /\ published = IF c = None THEN {} ELSE {c}
    /\ tbl \in [Sessions -> Tables]
    /\ \A s \in Sessions \ S : tbl[s] = CHOOSE t \in Tables : Len(t) = 1
    /\ pc = [s \in Sessions |-> "idle"]
    /\ tempname = [s \in Sessions |-> Path]
    /\ wi = [s \in Sessions |-> 0]
    /\ perms = [s \in Sessions |-> 0]
    /\ result = [s \in Sessions |-> "none"]
    /\ failedAt = [s \in Sessions |-> "none"]
    /\ pre = [s \in Sessions |-> NoSnapshot]
    /\ nwrites = [s \in Sessions |-> 0]
    /\ rino = 0
    /\ robs = None

FsStart(S) == FsStartWith(S, InitContents \cup {None})

\* The session changes its table between two writes.
EditTable(s) ==
    /\ UNCHANGED <<lineVars, tableVars, setupVars>>
    /\ pc[s] = "idle"
    /\ \E t \in Tables \ {tbl[s]} : tbl' = [tbl EXCEPT ![s] = t]
    /\ result' = [result EXCEPT ![s] = "none"]
    /\ UNCHANGED <<dir, inodes, pc, tempname, wi, perms, failedAt, pre, nwrites,
                   published, rino, robs>>

\* write(): line 172-173, tempfile.mkstemp creates an empty file under a name
\* not in use (the first free one stands for any) and the descriptor is closed
Mkstemp(s) ==
    /\ UNCHANGED <<lineVars, tableVars, setupVars>>
    /\ pc[s] = "idle"
    /\ nwrites[s] < MaxWrites
    /\ LET k == CHOOSE k \in 1..MaxTemps :
                   /\ ~Exists(dir, TempName(k))
                   /\ \A j \in 1..(k - 1) : Exists(dir, TempName(j))
       IN  /\ inodes' = Append(inodes, [content |-> <<>>, perms |-> MkstempPerms])
           /\ dir' = [dir EXCEPT ![TempName(k)] = Len(inodes) + 1]
           /\ tempname' = [tempname EXCEPT ![s] = TempName(k)]
    /\ pre' = [pre EXCEPT ![s] = Snapshot]
    /\ published' = published \cup {Render(tbl[s])}
    /\ nwrites' = [nwrites EXCEPT ![s] = @ + 1]
    /\ result' = [result EXCEPT ![s] = "none"]
    /\ failedAt' = [failedAt EXCEPT ![s] = "none"]
    /\ pc' = [pc EXCEPT ![s] = "open"]
    /\ UNCHANGED <<tbl, wi, perms, rino, robs>>

\* line 175: open(tempname, "w") truncates the file
OpenTemp(s) ==
    /\ UNCHANGED <<lineVars, tableVars, setupVars>>
    /\ pc[s] = "open"
    /\ Exists(dir, WriteTarget(s))
    /\ inodes' = [inodes EXCEPT ![dir[WriteTarget(s)]].content = <<>>]
    /\ wi' = [wi EXCEPT ![s] = 0]
    /\ pc' = [pc EXCEPT ![s] = "write"]
    /\ UNCHANGED <<dir, tbl, tempname, perms, result, failedAt, pre, nwrites,
                   published, rino, robs>>

\* lines 176-177: f.write(line.raw) for the next line; the text reaches the
\* file now or when the file is closed, and the earlier is modelled
WriteLine(s) ==
    /\ UNCHANGED <<lineVars, tableVars, setupVars>>
    /\ pc[s] = "write"
    /\ wi[s] < Len(tbl[s])
    /\ Exists(dir, WriteTarget(s))
    /\ inodes' = [inodes EXCEPT ![dir[WriteTarget(s)]].content =
                                    @ \o get_raw(tbl[s][wi[s] + 1])]
    /\ wi' = [wi EXCEPT ![s] = @ + 1]
    /\ UNCHANGED <<dir, tbl, pc, tempname, perms, result, failedAt, pre, nwrites,
                   published, rino, robs>>

\* line 175: the with block ends and closes the file
CloseTemp(s) ==
    /\ UNCHANGED <<lineVars, tableVars, setupVars>>
    /\ pc[s] = "write"
    /\ wi[s] = Len(tbl[s])
    /\ pc' = [pc EXCEPT ![s] = "stat"]
    /\ UNCHANGED <<dir, inodes, tbl, tempname, wi, perms, result, failedAt, pre,
                   nwrites, published, rino, robs>>

\* How a call of write that raises ends the write: the exception leaves write.
Raise(s) ==
    /\ pc' = [pc EXCEPT ![s] = "idle"]
    /\ result' = [result EXCEPT ![s] = "failed"]
    /\ failedAt' = [failedAt EXCEPT ![s] = pc[s]]

\* line 179: self.get_perms(fn); os.stat raises when fn does not exist
StatPath(s) ==
    /\ UNCHANGED <<lineVars, tableVars, setupVars>>
    /\ pc[s] = "stat"
    /\ IF Exists(dir, Path)
       THEN /\ perms' = [perms EXCEPT ![s] = get_perms(dir, inodes, Path)]
            /\ pc' = [pc EXCEPT ![s] = "chmod"]
            /\ UNCHANGED <<result, failedAt>>
       ELSE /\ Raise(s)
            /\ UNCHANGED perms
    /\ UNCHANGED <<dir, inodes, tbl, tempname, wi, pre, nwrites, published, rino, robs>>

\* line 179: self.chmod_file(tempname, mode)
ChmodTemp(s) ==
    /\ UNCHANGED <<lineVars, tableVars, setupVars>>
    /\ pc[s] = "chmod"
    /\ Exists(dir, tempname[s])
    /\ inodes' = chmod_file(dir, inodes, tempname[s], perms[s])
    /\ pc' = [pc EXCEPT ![s] = "exists"]
    /\ UNCHANGED <<dir, tbl, tempname, wi, perms, result, failedAt, pre, nwrites,
                   published, rino, robs>>

\* link_file, line 144: os.path.exists(newname)
BakExists(s) ==
    /\ UNCHANGED <<lineVars, tableVars, setupVars>>
    /\ pc[s] = "exists"
    /\ pc' = [pc EXCEPT ![s] = IF Exists(dir, Bak) THEN "remove" ELSE "link"]
    /\ UNCHANGED <<dir, inodes, tbl, tempname, wi, perms, result, failedAt, pre,
                   nwrites, published, rino, robs>>

\* link_file, line 145: os.remove(newname); raises when there is no such file
RemoveBak(s) ==
    /\ UNCHANGED <<lineVars, tableVars, setupVars>>
    /\ pc[s] = "remove"
    /\ LET target == RemoveTarget(BackupSource(s), Bak)
       IN  IF Exists(dir, target)
           THEN /\ dir' = [dir EXCEPT ![target] = 0]
                /\ pc' = [pc EXCEPT ![s] = "link"]
                /\ UNCHANGED <<result, failedAt>>
           ELSE /\ Raise(s)
                /\ UNCHANGED dir
    /\ UNCHANGED <<inodes, tbl, tempname, wi, perms, pre, nwrites, published, rino, robs>>

\* link_file, line 146: os.link(oldname, newname); raises when oldname does
\* not exist or newname does
LinkBak(s) ==
    /\ UNCHANGED <<lineVars, tableVars, setupVars>>
    /\ pc[s] = "link"
    /\ IF Exists(dir, BackupSource(s)) /\ ~Exists(dir, Bak)
       THEN /\ dir' = [dir EXCEPT ![Bak] = dir[BackupSource(s)]]
            /\ pc' = [pc EXCEPT ![s] = "rename"]
            /\ UNCHANGED <<result, failedAt>>
       ELSE /\ Raise(s)
            /\ UNCHANGED dir
    /\ UNCHANGED <<inodes, tbl, tempname, wi, perms, pre, nwrites, published, rino, robs>>

\* line 181: self.rename_file(tempname, fn), and write returns
RenameTemp(s) ==
    /\ UNCHANGED <<lineVars, tableVars, setupVars>>
    /\ pc[s] = "rename"
    /\ IF Exists(dir, tempname[s])
       THEN /\ dir' = rename_file(dir, tempname[s], Path)
            /\ pc' = [pc EXCEPT ![s] = "idle"]
            /\ result' = [result EXCEPT ![s] = "ok"]
            /\ UNCHANGED failedAt
       ELSE /\ Raise(s)
            /\ UNCHANGED dir
    /\ UNCHANGED <<inodes, tbl, tempname, wi, perms, pre, nwrites, published, rino, robs>>

\* The call the session is about to make fails for a reason outside the
\* program (disk full, permission denied, I/O error) and raises.  mkstemp
\* failing leaves nothing behind, so it is a write that ends at once.
EnvFail(s) ==
    /\ UNCHANGED <<lineVars, tableVars, setupVars>>
    /\ \/ pc[s] \in {"open", "write", "stat", "chmod", "remove", "link", "rename"}
          /\ UNCHANGED <<pre, nwrites, published>>
       \/ /\ pc[s] = "idle"
          /\ nwrites[s] < MaxWrites
          /\ pre' = [pre EXCEPT ![s] = Snapshot]
          /\ nwrites' = [nwrites EXCEPT ![s] = @ + 1]
          /\ published' = published
    /\ pc' = [pc EXCEPT ![s] = "idle"]
    /\ result' = [result EXCEPT ![s] = "failed"]
    /\ failedAt' = [failedAt EXCEPT ![s] = IF pc[s] = "idle" THEN "mkstemp" ELSE pc[s]]
    /\ UNCHANGED <<dir, inodes, tbl, tempname, wi, perms, rino, robs>>

\* Another process opens path for reading ...
ReaderOpen ==
    /\ UNCHANGED <<lineVars, tableVars, setupVars>>
    /\ Exists(dir, Path)
    /\ rino' = dir[Path]
    /\ UNCHANGED <<dir, inodes, tbl, pc, tempname, wi, perms, result, failedAt, pre,
                   nwrites, published, robs>>

\* ... and reads the file it has open.
ReaderRead ==
    /\ UNCHANGED <<lineVars, tableVars, setupVars>>
    /\ rino # 0
    /\ robs' = inodes[rino].content
    /\ rino' = 0
    /\ UNCHANGED <<dir, inodes, tbl, pc, tempname, wi, perms, result, failedAt, pre,
                   nwrites, published>>

WriteStep(s) ==
    \/ EditTable(s)
    \/ Mkstemp(s)
    \/ OpenTemp(s)
    \/ WriteLine(s)
    \/ CloseTemp(s)
    \/ StatPath(s)
    \/ ChmodTemp(s)
    \/ BakExists(s)
    \/ RemoveBak(s)
    \/ LinkBak(s)
    \/ RenameTemp(s)
    \/ EnvFail(s)

(***************************************************************************)
(* Fstab.read, and setup.py's add_fstab_entry: one process that reads the  *)
(* file, looks for the entry, and adds and writes it when there is none.   *)
(***************************************************************************)
RECURSIVE SplitLines(_)
\* "for line in f": the physical lines of a text, each with its "\n"; a
\* last line without one is a line too.  (The files here hold no "\r".)
SplitLines(c) ==
    IF c = <<>> THEN <<>>
    ELSE LET n == IF \E i \in 1..Len(c) : c[i] = "\n"
                  THEN CHOOSE i \in 1..Len(c) :
                           c[i] = "\n" /\ \A j \in 1..(i - 1) : c[j] # "\n"
                  ELSE Len(c)
         IN  <<SubSeq(c, 1, n)>> \o SplitLines(SubSeq(c, n + 1, Len(c)))

\* Fstab.read: self.lines for a file of content c
read(c) == [i \in 1..Len(SplitLines(c)) |-> NewLine(SplitLines(c)[i])]

CLOUDSTOR_URL ==
    <<"h", "t", "t", "p", "s", ":", "/", "/", "c", "l", "o", "u", "d", "s",
      "t", "o", "r", ".", "a", "a", "r", "n", "e", "t", ".", "e", "d", "u",
      ".", "a", "u", "/", "p", "l", "u", "s", "/", "r", "e", "m", "o", "t",
      "e", ".", "p", "h", "p", "/", "w", "e", "b", "d", "a", "v", "/">>
CLOUDSTOR_MOUNT == <<"/", "c", "l", "o", "u", "d", "s", "t", "o", "r">>
Davfs == <<"d", "a", "v", "f", "s">>

\* the options of lines 78-81 for the default user
SetupOptions(user) ==
    IF user # <<>> THEN <<"u", "i", "d", "=">> \o user \o <<",", "_", "n", "e", "t", "d", "e", "v">>
    ELSE <<"_", "n", "e", "t", "d", "e", "v">>

\* add_fstab_entry adding and writing whatever the table holds
NeedsEntryAlways(ls) == TRUE

\* line 75: not fstab.get_entry(CLOUDSTOR_MOUNT)
NeedsEntry(ls) == get_entry(ls, CLOUDSTOR_MOUNT) = 0

\* the session add_fstab_entry runs as
Agent == 1

\* Files add_fstab_entry finds: without the entry (a comment; the same
\* without its newline; an entry for another mount point and one character,
\* both without newline; the empty file), with it, and with two of them
SetupFiles ==
    { <<"#", " ", "c", "\n">>,
      <<"#", " ", "c">>,
      <<"d", " ", "/", "n", " ", "t", " ", "o", " ", "0", " ", "0">>,
      <<"x">>,
      <<>>,
      <<"#", " ", "c", "\n">> \o FormatEntry(CLOUDSTOR_URL, CLOUDSTOR_MOUNT, Davfs,
                                            SetupOptions(<<>>), 0, 0),
      FormatEntry(<<"x">>, CLOUDSTOR_MOUNT, <<"t">>, <<"o">>, 0, 0)
          \o FormatEntry(<<"y">>, CLOUDSTOR_MOUNT, <<"t">>, <<"o">>, 0, 0) }

Users == {<<>>, <<"u">>}

SetupStart ==
    /\ runpc = "start"
    /\ suser \in Users
    /\ nok = 0

\* lines 72-73: fstab = Fstab(); fstab.read()
SetupRead ==
    /\ UNCHANGED <<lineVars, tableVars>>
    /\ runpc \in {"start", "returned", "raised"}
    /\ pc[Agent] = "idle"
    /\ Exists(dir, Path)
    /\ tbl' = [tbl EXCEPT ![Agent] = read(ContentOf(dir, inodes, Path))]
    /\ runpc' = "loaded"
    /\ UNCHANGED <<dir, inodes, pc, tempname, wi, perms, result, failedAt, pre,
                   nwrites, published, rino, robs, suser, nok>>

\* lines 75-86: with an entry there, return True; without, add_entry and go
\* on to write
SetupDecide ==
    /\ UNCHANGED <<lineVars, tableVars>>
    /\ runpc = "loaded"
    /\ IF NeedsEntry(tbl[Agent])
       THEN /\ tbl' = [tbl EXCEPT ![Agent] =
                         add_entry(tbl[Agent], CLOUDSTOR_URL, CLOUDSTOR_MOUNT, Davfs,
                                   SetupOptions(suser), 0, 0)]
            /\ result' = [result EXCEPT ![Agent] = "none"]
            /\ runpc' = "write"
       ELSE /\ runpc' = "returned"
            /\ UNCHANGED <<tbl, result>>
    /\ UNCHANGED <<dir, inodes, pc, tempname, wi, perms, failedAt, pre,
                   nwrites, published, rino, robs, suser, nok>>

\* line 85: fstab.write(), one file-system call per step
SetupWrite ==
    /\ runpc = "write"
    /\ pc[Agent] = "idle" => result[Agent] = "none"
    /\ \/ Mkstemp(Agent)
       \/ OpenTemp(Agent)
       \/ WriteLine(Agent)
       \/ CloseTemp(Agent)
       \/ StatPath(Agent)
       \/ ChmodTemp(Agent)
       \/ BakExists(Agent)
       \/ RemoveBak(Agent)
       \/ LinkBak(Agent)
       \/ RenameTemp(Agent)
       \/ EnvFail(Agent)

\* write has returned (line 86: return True) or raised: the run is over
SetupReturn ==
    /\ UNCHANGED <<lineVars, tableVars, fsVars>>
    /\ runpc = "write"
    /\ pc[Agent] = "idle"
    /\ result[Agent] \in {"ok", "failed"}
    /\ runpc' = IF result[Agent] = "ok" THEN "returned" ELSE "raised"
    /\ nok' = IF result[Agent] = "ok" THEN nok + 1 ELSE nok
    /\ UNCHANGED suser

(***************************************************************************)
(* The specifications.  Each lets one part of the program run and keeps    *)
(* the others at rest.                                                     *)
(***************************************************************************)
LineRest == LineStart({<<>>})
TableRest == lines = <<>> /\ tops = <<>> /\ thist = <<>> /\ tret = 0
FsRest == FsStart({}) /\ dir[Path] = 0 /\ dir[Bak] = 0 /\ inodes[1].perms = 420
SetupRest == runpc = "rest" /\ suser = <<>> /\ nok = 0

\* One session writes, another process reads.
Init == FsStart({1}) /\ LineRest /\ TableRest /\ SetupRest

Next ==
    \/ \E s \in {1} : WriteStep(s)
    \/ ReaderOpen
    \/ ReaderRead

Spec == Init /\ [][Next]_vars

\* The parser on generated raw lines.
InitParse == LineStart(RawLines) /\ TableRest /\ FsRest /\ SetupRest

NextParse ==
    \/ LineInit
    \/ LineRender

SpecParse == InitParse /\ [][NextParse]_vars

\* One Line and the calls that read and set its fields.
InitLine == LineStart(SampleLines) /\ TableRest /\ FsRest /\ SetupRest

NextLine ==
    \/ LineInit
    \/ LineRender
    \/ SetText
    \/ SetDump
    \/ SetFsck
    \/ SetOptions

SpecLine == InitLine /\ [][NextLine]_vars

\* One table and the calls that query and edit it.
InitTable == TableStart /\ LineRest /\ FsRest /\ SetupRest

NextTable ==
    \/ GetEntry
    \/ DeleteEntry
    \/ AddEntry

SpecTable == InitTable /\ [][NextTable]_vars

\* Two sessions write to the same path, their file-system calls interleaved.
\* Each writes the table it holds; the tables differ, so that the file shows
\* whose text it has.  A call fails here only by what the other session did
\* (failures from outside are in Spec).
InitRace ==
    /\ FsStart(Sessions) /\ LineRest /\ TableRest /\ SetupRest
    /\ tbl[1] # tbl[2]
    /\ Exists(dir, Path) /\ ContentOf(dir, inodes, Path) = OldFile
    /\ inodes[1].perms = 420

NextRace ==
    \E s \in Sessions :
        \/ Mkstemp(s)
        \/ OpenTemp(s)
        \/ WriteLine(s)
        \/ CloseTemp(s)
        \/ StatPath(s)
        \/ ChmodTemp(s)
        \/ BakExists(s)
        \/ RemoveBak(s)
        \/ LinkBak(s)
        \/ RenameTemp(s)

SpecRace == InitRace /\ [][NextRace]_vars

\* add_fstab_entry, run again and again on the same file.
InitSetup == FsStartWith({}, SetupFiles) /\ SetupStart /\ LineRest /\ TableRest

NextSetup ==
    \/ SetupRead
    \/ SetupDecide
    \/ SetupWrite
    \/ SetupReturn

SpecSetup == InitSetup /\ [][NextSetup]_vars

(***************************************************************************)
(* Properties of write.                                                    *)
(***************************************************************************)
\* The text of a table: the renderings of its lines, in order, one after
\* the other.
TextOf(ls) == Concat([i \in 1..Len(ls) |-> get_raw(ls[i])])

\* Session s is inside a write, or its last write has ended and nothing was
\* called since.
InOrAfterWrite(s) == pc[s] # "idle" \/ result[s] # "none"

\* C1: at every point of a write (between any two of its file-system calls,
\* and where a failed or stopped write leaves things), path exists and holds
\* either the complete content from before the write or the complete text
\* of the table; and whatever a reader of path has read is one of the complete
\* contents path was given, never a part of one.
C1_AtomicReplace ==
    /\ \A s \in Sessions :
          InOrAfterWrite(s) /\ pre[s].exists =>
            /\ Exists(dir, Path)
            /\ ContentOf(dir, inodes, Path) \in {pre[s].content, TextOf(tbl[s])}
    /\ robs # None => robs \in published

\* The temporary file is partly written, path still has its old content, and
\* a reader has path open and is about to read it.
C1_Witness ==
    /\ pc[1] = "write" /\ 0 < wi[1] /\ wi[1] < Len(tbl[1])
    /\ pre[1].exists
    /\ rino # 0 /\ rino = dir[Path]
    /\ ContentOf(dir, inodes, Path) # TextOf(tbl[1])

BeforeRename == {"mkstemp", "open", "write", "stat", "chmod", "remove", "link"}

\* C2: when a write has failed in a call before the final rename, path exists
\* or not as before the call, and its content and permission bits are what
\* they were before the call.
C2_FailureLeavesPath ==
    \A s \in Sessions :
        result[s] = "failed" /\ failedAt[s] \in BeforeRename =>
            /\ Exists(dir, Path) = pre[s].exists
            /\ ContentOf(dir, inodes, Path) = pre[s].content
            /\ PermsOf(dir, inodes, Path) = pre[s].perms

\* The write failed in os.link, after the old backup had been removed.
C2_Witness ==
    /\ result[1] = "failed" /\ failedAt[1] = "link"
    /\ pre[1].exists /\ pre[1].bakExists /\ ~Exists(dir, Bak)

\* C3: after a write has returned, path holds exactly the text of the table
\* (the renderings of its lines in table order) and has the permission bits
\* it had before the write.
C3_WriteResult ==
    \A s \in Sessions :
        result[s] = "ok" =>
            /\ ContentOf(dir, inodes, Path) = TextOf(tbl[s])
            /\ PermsOf(dir, inodes, Path) = pre[s].perms

\* A table of three lines was written over a file of another content whose
\* permission bits are not those mkstemp gives.
C3_Witness ==
    /\ result[1] = "ok" /\ Len(tbl[1]) = 3
    /\ pre[1].content # TextOf(tbl[1])
    /\ pre[1].perms # MkstempPerms

\* C4: after every write that has returned, path + ".bak" exists and holds
\* exactly the content path had when that write was called, whether or not
\* there was a backup before; so after a second write it holds what the first
\* one wrote.
C4_BackupHoldsPrevious ==
    \A s \in Sessions :
        result[s] = "ok" =>
            /\ Exists(dir, Bak)
            /\ ContentOf(dir, inodes, Bak) = pre[s].content

\* Second write returned; the backup it replaced was there before, and the
\* backup now holds the three-line table that only a first write can have
\* put into path.
C4_Witness ==
    /\ result[1] = "ok" /\ nwrites[1] = 2
    /\ pre[1].bakExists
    /\ Len(tbl[1]) = 1
    /\ ContentOf(dir, inodes, Bak) = TextOf(<<C1line, A1, X1>>)
    /\ ContentOf(dir, inodes, Path) = TextOf(tbl[1])

(***************************************************************************)
(* Properties of Line.                                                     *)
(***************************************************************************)
\* C5: for every raw line, a Line built from it and not changed since
\* renders as exactly that line: a blank line, a comment or a line the
\* pattern does not match is kept as it is, and a line the pattern matches is
\* the thirteen matched pieces put together again, leading zeros of the digit
\* fields and the trailing newline included.
C5_RoundTrip ==
    lop = "get_raw" =>
        /\ lout = lraw
        /\ has_filesystem(ldict) =>
              Concat([i \in 1..Len(attrs) |-> ldict[attrs[i]]]) = lraw

\* A matched line with leading white space, a tab between fields, a dump
\* field with a leading zero and white space before the newline was rendered.
C5_Witness ==
    /\ lop = "get_raw" /\ has_filesystem(ldict)
    /\ ldict["ws1"] # <<>>
    /\ ldict["ws3"] = <<"\t", " ">>
    /\ ldict["dump"] = <<"0", "7">>
    /\ ldict["ws7"] = <<" ", "\n">>

\* C8: setting any of the six fields of a line that has no filesystem
\* specification raises, whichever of the six it is, and the line afterwards
\* still renders as its raw text and still has no filesystem specification.
C8_OpaqueSetRaises ==
    lop \in SixFields /\ ~has_filesystem(lbefore) =>
        /\ lerr
        /\ get_raw(ldict) = lraw
        /\ ~has_filesystem(ldict)

\* where the first white-space character of t is, Len(t) + 1 when it has none
FirstSpace(t) ==
    IF \E i \in 1..Len(t) : IsSpace(t[i])
    THEN CHOOSE i \in 1..Len(t) : IsSpace(t[i]) /\ \A j \in 1..(i - 1) : ~IsSpace(t[j])
    ELSE Len(t) + 1

RECURSIVE Fields(_)
\* the white-space-delimited pieces of a line, left to right
Fields(s) ==
    IF s = <<>> THEN <<>>
    ELSE IF IsSpace(Head(s)) THEN Fields(Tail(s))
    ELSE <<SubSeq(s, 1, FirstSpace(s) - 1)>>
             \o Fields(SubSeq(s, FirstSpace(s), Len(s)))

AllDigits(t) == t # <<>> /\ \A i \in 1..Len(t) : IsDigit(t[i])

\* The six-field grammar on the whole line: six pieces, or five behind
\* leading white space (the device is empty then), the last two all digits.
SixFieldGrammar(raw) ==
    LET f == Fields(raw)
    IN  \/ Len(f) = 6 /\ AllDigits(f[5]) /\ AllDigits(f[6])
        \/ Len(f) = 5 /\ IsSpace(raw[1]) /\ AllDigits(f[4]) /\ AllDigits(f[5])

\* ... and the six fields it gives
GrammarFields(raw) ==
    IF Len(Fields(raw)) = 6 THEN Fields(raw) ELSE << <<>> >> \o Fields(raw)

\* C14: Line(raw) has a filesystem specification exactly when raw, trimmed,
\* is not empty and does not start with "#", and the whole of raw follows
\* the six-field grammar; every other line (a line led by "#" with six valid
\* fields too) has none and keeps its text; and the six fields of a line
\* that has one are its white-space-delimited pieces from left to right.
C14_ParseVariant ==
    lpc = "ready" =>
        /\ has_filesystem(ldict) <=>
              /\ Fields(lraw) # <<>>
              /\ Head(Fields(lraw)[1]) # "#"
              /\ SixFieldGrammar(lraw)
        /\ has_filesystem(ldict) =>
              <<ldict["device"], ldict["directory"], ldict["fstype"],
                ldict["options"], ldict["dump"], ldict["fsck"]>> = GrammarFields(lraw)
        /\ ~has_filesystem(ldict) =>
              /\ \A a \in AttrSet : ldict[a] = None
              /\ ldict["raw"] = lraw

\* A line of six valid fields behind a blank and a "#" was parsed: it has no
\* filesystem specification.
C14_Witness ==
    /\ lpc = "ready" /\ ~has_filesystem(ldict)
    /\ Len(lraw) > 2 /\ lraw[1] = " " /\ lraw[2] = "#"
    /\ SixFieldGrammar(lraw)
    /\ Len(Fields(lraw)) = 6

\* the elements of list are not empty lists themselves and hold no ","
NoComma(list) == \A i \in 1..Len(list) : \A j \in 1..Len(list[i]) : list[i][j] # ","

\* the rendering of d with text t in the place of the options
RenderWithOptions(d, t) ==
    Concat([i \in 1..Len(attrs) |-> IF attrs[i] = "options" THEN t ELSE d[attrs[i]]])

\* C13 as stated: after options = L on a line with filesystem specification,
\* for any list L of texts, get_options returns exactly L, and the line
\* renders with the elements of L joined by "," in the place of the options
\* and every other field and white space as before.
C13_SetOptionsAnyList ==
    lop = "options" /\ has_filesystem(lbefore) =>
        /\ ~lerr
        /\ get_options(ldict) = larg
        /\ get_raw(ldict) = RenderWithOptions(lbefore, JoinWith(<<",">>, larg))
        /\ \A a \in AttrSet \ {"options"} : ldict[a] = lbefore[a]

\* C13, amended: after options = L on a line with filesystem specification,
\* the line renders with the elements of L joined by "," in the place of the
\* options and every other field and white space as before, for any list L;
\* get_options returns exactly L when L is not empty and no element of L
\* holds a ",", and it returns [""] for the empty list and the pieces between
\* the commas otherwise.
C13_SetOptionsRoundTrip ==
    lop = "options" /\ has_filesystem(lbefore) =>
        /\ ~lerr
        /\ larg # <<>> /\ NoComma(larg) => get_options(ldict) = larg
        /\ larg = <<>> => get_options(ldict) = << <<>> >>
        /\ ~NoComma(larg) => Len(get_options(ldict)) > Len(larg)
        /\ get_raw(ldict) = RenderWithOptions(lbefore, JoinWith(<<",">>, larg))
        /\ \A a \in AttrSet \ {"options"} : ldict[a] = lbefore[a]

\* options = ["a", "b"] was set on the line with a tab between fields, whose
\* options were "r,w".
C13_Witness ==
    /\ lop = "options" /\ has_filesystem(lbefore)
    /\ larg = << <<"a">>, <<"b">> >>
    /\ lbefore["options"] = <<"r", ",", "w">>
    /\ lbefore["ws3"] = <<"\t">>
    /\ get_options(ldict) = larg

(***************************************************************************)
(* Properties of the table.                                                *)
(***************************************************************************)
\* positions of the filesystem entries for mount point m
EntriesFor(ls, m) ==
    {i \in 1..Len(ls) : has_filesystem(ls[i]) /\ ls[i]["directory"] = m}

MinOf(S) == CHOOSE i \in S : \A j \in S : i <= j

\* the lines that are not filesystem entries for m, in order
Others(ls, m) ==
    SelectSeq(ls, LAMBDA d : ~(has_filesystem(d) /\ d["directory"] = m))

\* no two filesystem entries for m next to each other
NoAdjacent(ls, m) ==
    \A i \in 1..(Len(ls) - 1) : ~(i \in EntriesFor(ls, m) /\ (i + 1) \in EntriesFor(ls, m))

NoSpace(t) == \A i \in 1..Len(t) : ~IsSpace(t[i])

\* Arguments each of which is one token of the formatted line: no white
\* space in any, directory, fstype and options not empty, dump and fsck not
\* negative, and the line does not start with "#".
WellFormed(a) ==
    /\ \A i \in 1..4 : NoSpace(a[i])
    /\ \A i \in 2..4 : a[i] # <<>>
    /\ a[5] >= 0 /\ a[6] >= 0
    /\ Head(a[1] \o a[2]) # "#"

\* line d holds the values of the arguments a
Carries(d, a) ==
    /\ d["device"] = a[1] /\ d["directory"] = a[2] /\ d["fstype"] = a[3]
    /\ d["options"] = a[4] /\ d["dump"] = StrInt(a[5]) /\ d["fsck"] = StrInt(a[6])

\* ... between single spaces, with a newline at the end
CanonicalSeparators(d) ==
    /\ d["ws1"] = <<>> /\ d["ws7"] = <<"\n">>
    /\ \A w \in {"ws2", "ws3", "ws4", "ws5", "ws6"} : d[w] = <<" ">>

\* "device mountPoint fsType options dump fsck\n"
CanonicalText(a) ==
    a[1] \o <<" ">> \o a[2] \o <<" ">> \o a[3] \o <<" ">> \o a[4] \o <<" ">>
         \o StrInt(a[5]) \o <<" ">> \o StrInt(a[6]) \o <<"\n">>

NCalls == Len(tops)
LastCall == tops[NCalls]
Before == thist[NCalls]
LastLine == lines[Len(lines)]

\* C6 as stated: after add_entry for mount point m (with arguments that are
\* one token each), on any table, there is exactly one filesystem entry for m
\* and it holds the values of the call.
C6_AddLeavesOne ==
    NCalls >= 1 /\ LastCall.op = "add" /\ WellFormed(LastCall.args) =>
        /\ EntriesFor(lines, LastCall.args[2]) = {Len(lines)}
        /\ Carries(LastLine, LastCall.args)

\* C6, amended: after add_entry for mount point m, with arguments that are
\* one token each, on a table in which no two filesystem entries for m are
\* next to each other, there is exactly one filesystem entry for m, the last
\* line, and it holds the values of the call; and so it is after two calls
\* in a row for the same m, with the values of the second.  Where two entries
\* for m were next to each other, the second of them stays and the table has
\* more than one entry for m afterwards.
C6_AddReplaces ==
    /\ NCalls >= 1 /\ LastCall.op = "add" /\ WellFormed(LastCall.args)
          /\ ~NoAdjacent(Before, LastCall.args[2]) =>
            Cardinality(EntriesFor(lines, LastCall.args[2])) >= 2
    /\ NCalls >= 1 /\ LastCall.op = "add" /\ WellFormed(LastCall.args)
          /\ NoAdjacent(Before, LastCall.args[2]) =>
            /\ EntriesFor(lines, LastCall.args[2]) = {Len(lines)}
            /\ Carries(LastLine, LastCall.args)
    /\ NCalls >= 2 /\ LastCall.op = "add" /\ tops[NCalls - 1].op = "add"
          /\ tops[NCalls - 1].args[2] = LastCall.args[2]
          /\ WellFormed(LastCall.args)
          /\ NoAdjacent(thist[NCalls - 1], LastCall.args[2]) =>
            /\ EntriesFor(lines, LastCall.args[2]) = {Len(lines)}
            /\ Carries(LastLine, LastCall.args)

\* Two calls in a row for /m with different values, on a table that had two
\* entries for /m with a line between them.
C6_Witness ==
    /\ NCalls = 2 /\ LastCall.op = "add" /\ tops[1].op = "add"
    /\ LastCall.args[2] = <<"/", "m">> /\ tops[1].args[2] = <<"/", "m">>
    /\ WellFormed(LastCall.args) /\ WellFormed(tops[1].args)
    /\ LastCall.args[1] # tops[1].args[1]
    /\ Cardinality(EntriesFor(thist[1], <<"/", "m">>)) = 2
    /\ NoAdjacent(thist[1], <<"/", "m">>)
    /\ EntriesFor(lines, <<"/", "m">>) = {Len(lines)}

\* C7: delete_entry for m removes the first filesystem entry for m and nothing
\* else: later entries for m, entries for other mount points and the lines
\* without filesystem specification all stay, in their order.
C7_DeleteFirstOnly ==
    NCalls >= 1 /\ LastCall.op = "delete" =>
        LET found == EntriesFor(Before, LastCall.args[1])
        IN  lines = IF found = {} THEN Before ELSE DelAt(Before, MinOf(found))

\* C9 as stated: after add_entry, for any argument values, the last line is a
\* filesystem entry holding exactly those values between canonical
\* separators, it renders as "device mountPoint fsType options dump fsck\n",
\* get_entry for the mount point returns it, and the lines that were there
\* for other mount points precede it in their order.
C9_AddAppendsAny ==
    NCalls >= 1 /\ LastCall.op = "add" =>
        /\ has_filesystem(LastLine)
        /\ Carries(LastLine, LastCall.args)
        /\ CanonicalSeparators(LastLine)
        /\ get_raw(LastLine) = CanonicalText(LastCall.args)
        /\ get_entry(lines, LastCall.args[2]) = Len(lines)
        /\ Others(SubSeq(lines, 1, Len(lines) - 1), LastCall.args[2])
              = Others(Before, LastCall.args[2])

\* C9, amended: after add_entry the last line renders as "device mountPoint
\* fsType options dump fsck\n" and the lines that were there and are not
\* filesystem entries for the mount point precede it in their order, for any
\* argument values; when the arguments are one token each, the last line is a
\* filesystem entry holding exactly those values between canonical separators;
\* and when, besides, no two entries for the mount point were next to each
\* other before the call, get_entry for the mount point returns the last line.
C9_AddAppends ==
    NCalls >= 1 /\ LastCall.op = "add" =>
        /\ Len(lines) >= 1
        /\ get_raw(LastLine) = CanonicalText(LastCall.args)
        /\ Others(SubSeq(lines, 1, Len(lines) - 1), LastCall.args[2])
              = Others(Before, LastCall.args[2])
        /\ WellFormed(LastCall.args) =>
              /\ has_filesystem(LastLine)
              /\ Carries(LastLine, LastCall.args)
              /\ CanonicalSeparators(LastLine)
        /\ WellFormed(LastCall.args) /\ NoAdjacent(Before, LastCall.args[2]) =>
              get_entry(lines, LastCall.args[2]) = Len(lines)

\* An entry with an empty device was added for /n to a table that had an
\* entry for /n before one for /m and a comment.
C9_Witness ==
    /\ NCalls >= 1 /\ LastCall.op = "add" /\ WellFormed(LastCall.args)
    /\ LastCall.args[1] = <<>> /\ LastCall.args[2] = <<"/", "n">>
    /\ Len(Before) = 3
    /\ EntriesFor(Before, <<"/", "n">>) = {1}
    /\ EntriesFor(Before, <<"/", "m">>) # {}
    /\ \E i \in 1..Len(Before) : ~has_filesystem(Before[i])
    /\ get_entry(lines, <<"/", "n">>) = Len(lines)

\* C10: get_entry for m returns the first line, in table order, that is a
\* filesystem entry with mount point m, never a line without filesystem
\* specification, and None when there is no such entry; the table is as before.
C10_GetEntryFirstMatch ==
    NCalls >= 1 /\ LastCall.op = "get" =>
        LET found == EntriesFor(Before, LastCall.args[1])
        IN  /\ tret = IF found = {} THEN 0 ELSE MinOf(found)
            /\ tret # 0 => has_filesystem(lines[tret])
            /\ lines = Before

\* get_entry passed over a comment that names the mount point and returned
\* the first of two entries for it.
C10_Witness ==
    /\ NCalls >= 1 /\ LastCall.op = "get"
    /\ tret = 2 /\ ~has_filesystem(lines[1])
    /\ Cardinality(EntriesFor(lines, LastCall.args[1])) = 2

\* C11: delete_entry for a mount point that no filesystem entry of the table
\* has leaves the table as it was: the same lines in the same order with the
\* same renderings, the lines without filesystem specification among them.
C11_DeleteAbsentKeeps ==
    NCalls >= 1 /\ LastCall.op = "delete"
        /\ EntriesFor(Before, LastCall.args[1]) = {} =>
            /\ lines = Before
            /\ Len(lines) = Len(Before)
            /\ \A i \in 1..Len(Before) : get_raw(lines[i]) = get_raw(Before[i])

\* delete_entry for /m on a table of three lines: a comment that names /m and
\* entries for /n, none for /m.
C11_Witness ==
    /\ NCalls >= 1 /\ LastCall.op = "delete" /\ LastCall.args[1] = <<"/", "m">>
    /\ Len(Before) = 3
    /\ EntriesFor(Before, <<"/", "m">>) = {}
    /\ EntriesFor(Before, <<"/", "n">>) # {}
    /\ \E i \in 1..3 : ~has_filesystem(Before[i])
    /\ Len(lines) = 3

(***************************************************************************)
(* More properties of write.                                               *)
(***************************************************************************)
\* C12: a write that failed after its temporary file was created (while
\* opening or writing it, copying the permission bits, or making the backup)
\* has raised to its caller and has left no temporary file in the directory
\* of path.
C12_FailureRemovesTemp ==
    \A s \in Sessions :
        failedAt[s] \in {"open", "write", "stat", "chmod", "remove", "link"} /\ pc[s] = "idle" =>
            /\ result[s] = "failed"
            /\ ~Exists(dir, tempname[s])
            /\ \A k \in 1..MaxTemps : ~Exists(dir, TempName(k))

\* session s renames its temporary file onto path in this step
Renames(s) == pc[s] = "rename" /\ pc'[s] = "idle" /\ result'[s] = "ok"

\* C15: with two sessions writing to the same path, their file-system calls
\* interleaved in any way, path holds one complete content in every state:
\* the original one or the full text of one session's table; its content
\* changes in no step but a rename, and the rename of a session puts the full
\* text of that session's table there.  So in the end path holds the text of
\* the session whose rename came last, and nothing of the other's.
C15_LastRenameWins ==
    /\ [](/\ Exists(dir, Path)
          /\ ContentOf(dir, inodes, Path) \in {OldFile} \cup {TextOf(tbl[s]) : s \in Sessions})
    /\ [][/\ \A s \in Sessions :
              Renames(s) => ContentOf(dir', inodes', Path) = TextOf(tbl[s])
          /\ (\A s \in Sessions : ~Renames(s)) =>
              ContentOf(dir', inodes', Path) = ContentOf(dir, inodes, Path)]_vars

\* Both sessions began writing over the original file and both have
\* renamed; path holds the table of session 1 and nothing of the other.
C15_Witness ==
    /\ result[1] = "ok" /\ result[2] = "ok"
    /\ nwrites[1] = 1 /\ nwrites[2] = 1
    /\ pre[1].content = OldFile /\ pre[2].content = OldFile
    /\ ContentOf(dir, inodes, Path) = TextOf(tbl[1])
    /\ TextOf(tbl[1]) # TextOf(tbl[2])

\* session s is about to remove a backup that is there, or to link when
\* there is none, and its last write did not fail in either call
BackupStepSafe(s) ==
    /\ pc[s] = "remove" => Exists(dir, Bak)
    /\ pc[s] = "link" => ~Exists(dir, Bak)
    /\ failedAt[s] \notin {"remove", "link"}

\* C16 as stated: whenever a session is in the backup step, the backup is
\* there when os.remove is called and not there when os.link is called, so
\* neither call fails; with one writer and with two writing at the same time.
C16_BackupStepNeverFails == \A s \in Sessions : BackupStepSafe(s)

\* C16, amended: so it is for a session as long as the other one has not
\* called write.  (With both writing, the backup can go or come between the
\* test and the call, and os.remove or os.link raises.)
C16_BackupStepAlone ==
    \A s \in Sessions :
        (\A o \in Sessions \ {s} : nwrites[o] = 0) => BackupStepSafe(s)

\* Session 1, writing alone, has replaced the backup that was there: the
\* backup is now the file path.
C16_Witness ==
    /\ pc[1] = "rename" /\ nwrites[2] = 0
    /\ pre[1].bakExists
    /\ Exists(dir, Bak) /\ dir[Bak] = dir[Path]

(***************************************************************************)
(* Properties of add_fstab_entry, and of read / add_entry / write / read.  *)
(***************************************************************************)
\* the table Fstab.read gets from path as it is now
TableOnDisk == read(ContentOf(dir, inodes, Path))

\* the entries for CLOUDSTOR_MOUNT in it
MountEntries == EntriesFor(TableOnDisk, CLOUDSTOR_MOUNT)

\* every line of the text ends with a newline
Terminated(c) == c = <<>> \/ c[Len(c)] = "\n"

\* the file add_fstab_entry found at its first run: inodes are never freed
\* or written again once renamed
FirstFile == inodes[1].content

\* add_fstab_entry is inside write only for a file that had no entry for the
\* mount point when it was read
WritesOnlyWithoutEntry ==
    runpc = "write" /\ pc[Agent] # "idle" =>
        get_entry(read(pre[Agent].content), CLOUDSTOR_MOUNT) = 0

\* C17 as stated: add_fstab_entry writes only when the table it read has no
\* entry for the mount point, and so, however often it is run on the same
\* file, at most one write is done in all and after a run the file has
\* exactly one entry for the mount point.
C17_AtMostOneWrite ==
    /\ WritesOnlyWithoutEntry
    /\ nok <= 1
    /\ runpc = "returned" => Cardinality(MountEntries) = 1

\* C17, amended: add_fstab_entry writes only when the table it read has no
\* entry for the mount point, and while the file has one, no step changes
\* the directory or any file.  A write that returns on a file whose lines
\* all end with a newline leaves exactly one entry for the mount point; so
\* on such a file at most one write returns, whatever the number of runs,
\* and every run returns with the entries the file had or with that one.
\* On a file whose last line has no newline a write joins the entry to that
\* line; the file it leaves has all its lines ended, so at most two writes
\* return in all.
C17_WritesOnlyWhenAbsent ==
    /\ [](/\ WritesOnlyWithoutEntry
          /\ result[Agent] = "ok" /\ Terminated(pre[Agent].content) =>
                Cardinality(MountEntries) = 1
          /\ result[Agent] = "ok" => Terminated(ContentOf(dir, inodes, Path))
          /\ Terminated(FirstFile) => nok <= 1
          /\ nok <= 2
          /\ runpc = "returned" /\ Terminated(FirstFile) =>
                \/ nok = 0 /\ ContentOf(dir, inodes, Path) = FirstFile
                                /\ MountEntries # {}
                \/ nok = 1 /\ Cardinality(MountEntries) = 1)
    /\ [][MountEntries # {} => dir' = dir /\ inodes' = inodes]_vars

\* A second run has read the file the first run wrote and finds the entry.
C17_Witness ==
    /\ runpc = "loaded" /\ nok = 1 /\ result[Agent] = "ok"
    /\ ~NeedsEntry(tbl[Agent])
    /\ Len(tbl[Agent]) = 2
    /\ Terminated(FirstFile)

\* C18: a file of any content (the last line with or without newline) is
\* read, add_entry is called, the table is written and the file read again:
\* get_entry for the mount point then returns a line with filesystem
\* specification that renders as "device mountPoint fsType options 0 0\n",
\* and the lines of the first file that were no entries for the mount point
\* are all there, as lines of their own, as they were and in their order.
C18_AddSurvivesRewrite ==
    runpc = "loaded" /\ result[Agent] = "ok" =>
        LET orig == read(pre[Agent].content)
            now == tbl[Agent]
            g == get_entry(now, CLOUDSTOR_MOUNT)
        IN  /\ g # 0
            /\ has_filesystem(now[g])
            /\ get_raw(now[g]) = FormatEntry(CLOUDSTOR_URL, CLOUDSTOR_MOUNT, Davfs,
                                             SetupOptions(suser), 0, 0)
            /\ Others(now, CLOUDSTOR_MOUNT) = Others(orig, CLOUDSTOR_MOUNT)

=============================================================================
